---- MODULE Spec2Model ----
(***************************************************************************)
(* A model of assets/font/subset_font.js: the build step that scans the    *)
(* .slint sources for \u{XXXX} icon escapes and asks Fontmin for a font    *)
(* holding only those glyphs.                                              *)
(*                                                                         *)
(* Strings are sequences of one-character strings, a JavaScript string is  *)
(* a sequence of UTF-16 code units (integers), a path is the sequence of   *)
(* the names below SRC_DIR, and a directory is the sequence of its entries *)
(* in readdirSync order.                                                   *)
(***************************************************************************)
EXTENDS Integers, Sequences, FiniteSets, TLC

VARIABLES
    pc,          \* the statement the script is at
    exitCode,    \* the code the process ends with (0 unless process.exit(1) or an uncaught exception)
    fontSource,  \* whether FONT_SOURCE (segoeicons.ttf) exists
    root,        \* SRC_DIR: [exists, entries], entries the tree under it
    target,      \* the published file icons.ttf: NoFile or what it holds
    tempDir,     \* build/temp_font: [exists, generated, others]
    slintFiles,  \* const slintFiles
    text,        \* const text
    err,         \* the err argument Fontmin hands to the callback
    engineCalls, \* how many times fontmin.run was called
    wrote,       \* whether the engine wrote segoeicons.ttf into TEMP_DIR in this run
    caught,      \* the fs call whose exception the catch block caught, or "none"
    ended,       \* how the run ended, or "running"
    target0,     \* icons.ttf as it was when the script started
    tempDir0,    \* build/temp_font as it was when the script started
    edits,       \* how many pieces the sources under SRC_DIR were put together from
    trace        \* the stages entered so far, in order

vars == <<pc, exitCode, fontSource, root, target, tempDir, slintFiles, text,
          err, engineCalls, caught, ended, target0, tempDir0, wrote, edits, trace>>

(***************************************************************************)
(* Bounds of the model.                                                    *)
(***************************************************************************)
\* The most entries (files and directories) of a tree the discovery is checked on.
MaxNodes == 4
\* The most pieces (chunks of text and new files) the scanned files are put together from.
MaxTokens == 4

(***************************************************************************)
(* Characters and strings.                                                 *)
(***************************************************************************)
NoFile == "NoFile"

\* The largest code point String.fromCodePoint accepts.
MaxCodePoint == 1114111

HexDigits == {"0", "1", "2", "3", "4", "5", "6", "7", "8", "9",
              "a", "b", "c", "d", "e", "f", "A", "B", "C", "D", "E", "F"}

\* [0-9a-fA-F]
IsHexDigit(ch) == ch \in HexDigits

\* The value parseInt(_, 16) gives one hexadecimal digit.
HexDigitValue(ch) ==
    CASE ch = "0" -> 0 [] ch = "1" -> 1 [] ch = "2" -> 2 [] ch = "3" -> 3
      [] ch = "4" -> 4 [] ch = "5" -> 5 [] ch = "6" -> 6 [] ch = "7" -> 7
      [] ch = "8" -> 8 [] ch = "9" -> 9
      [] ch \in {"a", "A"} -> 10 [] ch \in {"b", "B"} -> 11
      [] ch \in {"c", "C"} -> 12 [] ch \in {"d", "D"} -> 13
      [] ch \in {"e", "E"} -> 14 [] ch \in {"f", "F"} -> 15

\* parseInt(hex, 16) of a non-empty string of hexadecimal digits. Every value
\* above MaxCodePoint is rejected alike by String.fromCodePoint, so the
\* accumulator stops growing at MaxCodePoint + 1.
RECURSIVE ParseIntFrom(_, _, _)
ParseIntFrom(hex, i, acc) ==
    IF i > Len(hex) THEN acc
    ELSE LET v == acc * 16 + HexDigitValue(hex[i])
         IN  ParseIntFrom(hex, i + 1, IF v > MaxCodePoint THEN MaxCodePoint + 1 ELSE v)

parseInt16(hex) == ParseIntFrom(hex, 1, 0)

\* String.fromCodePoint(cp): the UTF-16 code units of cp, or a RangeError.
fromCodePoint(cp) ==
    IF cp > MaxCodePoint THEN [rangeError |-> TRUE, units |-> <<>>]
    ELSE IF cp < 65536 THEN [rangeError |-> FALSE, units |-> <<cp>>]
    ELSE [rangeError |-> FALSE,
          units |-> <<55296 + ((cp - 65536) \div 1024), 56320 + ((cp - 65536) % 1024)>>]

(***************************************************************************)
(* The file system under SRC_DIR. An entry is a record                     *)
(* [name, isDir, children, content]; a directory is a sequence of entries. *)
(***************************************************************************)
File(name, content) == [name |-> name, isDir |-> FALSE, children |-> <<>>, content |-> content]
Dir(name, children) == [name |-> name, isDir |-> TRUE, children |-> children, content |-> <<>>]

\* The entry called name among entries.
EntryNamed(entries, name) ==
    entries[CHOOSE i \in 1..Len(entries) : entries[i].name = name]

\* The entry a path names, walking down from the entries of SRC_DIR.
RECURSIVE Resolve(_, _)
Resolve(entries, path) ==
    IF Len(path) = 1 THEN EntryNamed(entries, path[1])
    ELSE Resolve(EntryNamed(entries, path[1]).children, Tail(path))

\* fs.readdirSync(dirPath): the names in the directory, dirPath = <<>> being SRC_DIR.
readdirSync(fs, dirPath) ==
    LET entries == IF dirPath = <<>> THEN fs ELSE Resolve(fs, dirPath).children
    IN  [i \in 1..Len(entries) |-> entries[i].name]

\* fs.statSync(p).isDirectory()
isDirectory(fs, p) == Resolve(fs, p).isDir

\* fs.readFileSync(file, 'utf8')
readFileSync(fs, file) == Resolve(fs, file).content

\* endsWith with the first character of the suffix (the dot) not compared.
endsWithButFirst(file, suffix) ==
    /\ Len(file) >= Len(suffix) - 1
    /\ SubSeq(file, Len(file) - Len(suffix) + 2, Len(file)) = Tail(suffix)

\* file.endsWith(suffix)
endsWith(file, suffix) ==
    /\ Len(file) >= Len(suffix)
    /\ SubSeq(file, Len(file) - Len(suffix) + 1, Len(file)) = suffix

DotSlint == <<".", "s", "l", "i", "n", "t">>

(***************************************************************************)
(* 1. getAllFiles: the recursive search for the .slint files.              *)
(***************************************************************************)
\* The forEach of getAllFiles over files[i..], and through it getAllFiles itself
\* on each subdirectory; arrayOfFiles is the array built so far.
RECURSIVE getAllFilesFrom(_, _, _, _, _)
getAllFilesFrom(fs, dirPath, files, i, arrayOfFiles) ==
    IF i > Len(files) THEN arrayOfFiles
    ELSE LET file == files[i]
             p == Append(dirPath, file)
         IN  IF isDirectory(fs, p)
             THEN getAllFilesFrom(fs, dirPath, files, i + 1,
                      getAllFilesFrom(fs, p, readdirSync(fs, p), 1, arrayOfFiles))
             ELSE IF endsWith(file, DotSlint)
                  THEN getAllFilesFrom(fs, dirPath, files, i + 1, Append(arrayOfFiles, p))
                  ELSE getAllFilesFrom(fs, dirPath, files, i + 1, arrayOfFiles)

getAllFiles(fs, dirPath) ==
    getAllFilesFrom(fs, dirPath, readdirSync(fs, dirPath), 1, <<>>)

(***************************************************************************)
(* 2. extractUnicodes: the scan for \u{XXXX}.                              *)
(***************************************************************************)
\* The first index at or after i that holds no hexadecimal digit.
RECURSIVE HexRunEnd(_, _)
HexRunEnd(content, i) ==
    IF i <= Len(content) /\ IsHexDigit(content[i]) THEN HexRunEnd(content, i + 1) ELSE i

\* /\\u\{([0-9a-fA-F]+)\}/ tried at the 1-based index i alone.
MatchAt(content, i) ==
    LET j == HexRunEnd(content, i + 3)
    IN  IF /\ i + 4 <= Len(content)
           /\ content[i] = "\\" /\ content[i + 1] = "u" /\ content[i + 2] = "{"
           /\ j > i + 3
           /\ j <= Len(content) /\ content[j] = "}"
        THEN [found |-> TRUE, group |-> SubSeq(content, i + 3, j - 1), lastIndex |-> j]
        ELSE [found |-> FALSE, group |-> <<>>, lastIndex |-> 0]

\* regex.exec(content) of the global regex whose lastIndex (0-based) is lastIndex:
\* the leftmost match starting at or after it, lastIndex moved past the match;
\* or null, lastIndex reset to 0.
RECURSIVE exec(_, _)
exec(content, lastIndex) ==
    IF lastIndex >= Len(content) THEN [found |-> FALSE, group |-> <<>>, lastIndex |-> 0]
    ELSE LET m == MatchAt(content, lastIndex + 1)
         IN  IF m.found THEN m ELSE exec(content, lastIndex + 1)

\* Array.prototype.push in place of Set.prototype.add: nothing is deduplicated.
ArrayPush(unicodes, char) == Append(unicodes, char)

\* Set.prototype.add on a Set kept as the sequence of its members in insertion order.
SetAdd(unicodes, char) ==
    IF \E k \in 1..Len(unicodes) : unicodes[k] = char THEN unicodes
    ELSE Append(unicodes, char)

\* The while loop over the matches of one file's content.
RECURSIVE ScanContent(_, _, _)
ScanContent(content, lastIndex, unicodes) ==
    LET match == exec(content, lastIndex)
    IN  IF ~match.found
        THEN [threw |-> FALSE, unicodes |-> unicodes, lastIndex |-> match.lastIndex]
        ELSE LET char == fromCodePoint(parseInt16(match.group))
             IN  IF char.rangeError
                 THEN [threw |-> TRUE, unicodes |-> unicodes, lastIndex |-> match.lastIndex]
                 ELSE ScanContent(content, match.lastIndex, SetAdd(unicodes, char.units))

\* files.forEach from files[k] on; regex is one object, so lastIndex carries over.
RECURSIVE ScanFiles(_, _, _, _, _)
ScanFiles(fs, files, k, lastIndex, unicodes) ==
    IF k > Len(files) THEN [threw |-> FALSE, unicodes |-> unicodes, lastIndex |-> lastIndex]
    ELSE LET r == ScanContent(readFileSync(fs, files[k]), lastIndex, unicodes)
         IN  IF r.threw THEN r
             ELSE ScanFiles(fs, files, k + 1, r.lastIndex, r.unicodes)

\* Array.from(unicodes).join('')
RECURSIVE join(_)
join(strings) ==
    IF strings = <<>> THEN <<>> ELSE Head(strings) \o join(Tail(strings))

\* extractUnicodes(files): [threw, text], text the returned string.
extractUnicodes(fs, files) ==
    LET r == ScanFiles(fs, files, 1, 0, <<>>)
    IN  [threw |-> r.threw, text |-> IF r.threw THEN <<>> ELSE join(r.unicodes)]

(***************************************************************************)
(* The inputs of a run.                                                    *)
(***************************************************************************)
Str_a_slint == <<"a">> \o DotSlint
Str_b_txt == <<"b", ".", "t", "x", "t">>
Str_slint == <<"s", "l", "i", "n", "t">>
Str_ui == <<"u", "i">>

\* \u{E7}, \u{1F600}, \u{110000} and \u{g} as file contents.
EscE7 == <<"\\", "u", "{", "E", "7", "}">>
Esc1F600 == <<"\\", "u", "{", "1", "F", "6", "0", "0", "}">>
Esc110000 == <<"\\", "u", "{", "1", "1", "0", "0", "0", "0", "}">>
EscG == <<"\\", "u", "{", "g", "}">>

\* The source trees a whole run is checked on: no SRC_DIR, an empty one, one
\* .slint file (empty, with icons, with a malformed escape, with an escape
\* past the last code point), icons in a file of another kind only, and a
\* .slint file one directory down.
RunRoots ==
    {<<>>,
     <<File(Str_a_slint, <<>>)>>,
     <<File(Str_a_slint, EscE7)>>,
     <<File(Str_a_slint, EscE7 \o Esc1F600 \o EscE7)>>,
     <<File(Str_a_slint, EscG)>>,
     <<File(Str_a_slint, Esc110000)>>,
     <<File(Str_b_txt, EscE7)>>,
     <<Dir(Str_ui, <<File(Str_b_txt, EscE7), File(Str_a_slint, EscE7)>>)>>}

\* build/temp_font before the run: absent, empty, or left behind by an earlier
\* run with a segoeicons.ttf in it (generated), other entries (others), or both.
TempDirs ==
    {[exists |-> FALSE, generated |-> NoFile, others |-> FALSE]} \cup
    {[exists |-> TRUE, generated |-> g, others |-> o] : g \in {NoFile, "stale"}, o \in BOOLEAN}

InitRun(r) ==
    /\ pc = "start"
    /\ exitCode = 0
    /\ fontSource \in BOOLEAN
    /\ root = r
    /\ target \in {NoFile, "old"}
    /\ tempDir \in TempDirs
    /\ slintFiles = <<>>
    /\ text = <<>>
    /\ err = FALSE
    /\ engineCalls = 0
    /\ wrote = FALSE
    /\ caught = "none"
    /\ ended = "running"
    /\ target0 = target
    /\ tempDir0 = tempDir
    /\ edits = 0
    /\ trace = <<>>

\* SRC_DIR holding the entries, and SRC_DIR missing.
SrcDir(entries) == [exists |-> TRUE, entries |-> entries]
NoSrcDir == [exists |-> FALSE, entries |-> <<>>]

Init == \E r \in {SrcDir(t) : t \in RunRoots} \cup {NoSrcDir} : InitRun(r)

(***************************************************************************)
(* The script, statement by statement.                                     *)
(***************************************************************************)
\* The process ends: process.exit(code), an uncaught exception (code 1), or
\* the end of the script with nothing pending (code 0).
Exit(code, how) ==
    /\ pc' = "exited"
    /\ exitCode' = code
    /\ ended' = how

Step(name) == trace' = Append(trace, name)

\* CheckFontSource with the process.exit(1) left out: the error is logged and
\* the script goes on.
CheckFontSourceNoExit ==
    /\ pc = "start"
    /\ Step("CheckFontSource")
    /\ pc' = "discover"
    /\ UNCHANGED <<exitCode, ended, fontSource, root, target, tempDir, slintFiles,
                   text, err, engineCalls, caught, target0, tempDir0, wrote, edits>>

\* if (!fs.existsSync(FONT_SOURCE)) { ...; process.exit(1); }
CheckFontSource ==
    /\ pc = "start"
    /\ Step("CheckFontSource")
    /\ IF ~fontSource
       THEN Exit(1, "missing_font")
       ELSE pc' = "discover" /\ UNCHANGED <<exitCode, ended>>
    /\ UNCHANGED <<fontSource, root, target, tempDir, slintFiles, text, err,
                   engineCalls, caught, target0, tempDir0, wrote, edits>>

\* const slintFiles = getAllFiles(SRC_DIR); readdirSync throws when SRC_DIR
\* does not exist, and nothing catches it.
Discover ==
    /\ pc = "discover"
    /\ Step("Discover")
    /\ \/ /\ ~root.exists
          /\ Exit(1, "uncaught")
          /\ UNCHANGED slintFiles
       \/ /\ root.exists
          /\ slintFiles' = getAllFiles(root.entries, <<>>)
          /\ pc' = "extract"
          /\ UNCHANGED <<exitCode, ended>>
    /\ UNCHANGED <<fontSource, root, target, tempDir, text, err, engineCalls,
                   caught, target0, tempDir0, wrote, edits>>

\* const text = extractUnicodes(slintFiles); the RangeError of
\* String.fromCodePoint is caught nowhere.
Extract ==
    /\ pc = "extract"
    /\ Step("Extract")
    /\ LET r == extractUnicodes(root.entries, slintFiles)
       IN  \/ /\ r.threw
              /\ Exit(1, "uncaught")
              /\ UNCHANGED text
           \/ /\ ~r.threw
              /\ text' = r.text
              /\ pc' = "emptycheck"
              /\ UNCHANGED <<exitCode, ended>>
    /\ UNCHANGED <<fontSource, root, target, tempDir, slintFiles, err,
                   engineCalls, caught, target0, tempDir0, wrote, edits>>

\* EmptyCheck with the process.exit(0) left out: the warning is logged and the
\* script goes on to the subsetting.
EmptyCheckNoExit ==
    /\ pc = "emptycheck"
    /\ Step("EmptyCheck")
    /\ pc' = "mkdir"
    /\ UNCHANGED <<exitCode, ended, fontSource, root, target, tempDir, slintFiles,
                   text, err, engineCalls, caught, target0, tempDir0, wrote, edits>>

\* if (text.length === 0) { ...; process.exit(0); }
EmptyCheck ==
    /\ pc = "emptycheck"
    /\ Step("EmptyCheck")
    /\ IF Len(text) = 0
       THEN Exit(0, "no_icons")
       ELSE pc' = "mkdir" /\ UNCHANGED <<exitCode, ended>>
    /\ UNCHANGED <<fontSource, root, target, tempDir, slintFiles, text, err,
                   engineCalls, caught, target0, tempDir0, wrote, edits>>

\* if (!fs.existsSync(TEMP_DIR)) { fs.mkdirSync(TEMP_DIR, { recursive: true }); }
MakeTempDir ==
    /\ pc = "mkdir"
    /\ Step("MakeTempDir")
    /\ tempDir' = IF tempDir.exists THEN tempDir ELSE [tempDir EXCEPT !.exists = TRUE]
    /\ pc' = "run"
    /\ UNCHANGED <<exitCode, fontSource, root, target, slintFiles, text, err,
                   engineCalls, caught, ended, target0, tempDir0, wrote, edits>>

\* new Fontmin().src(FONT_SOURCE).use(...).dest(TEMP_DIR).run(callback): the
\* engine reports an error or none, and has or has not written segoeicons.ttf
\* into TEMP_DIR by the time it calls back.
FontminRun ==
    /\ pc = "run"
    /\ Step("FontminRun")
    /\ engineCalls' = engineCalls + 1
    /\ \E e \in BOOLEAN, w \in BOOLEAN :
          /\ err' = e
          /\ wrote' = w
          /\ tempDir' = IF w THEN [tempDir EXCEPT !.generated = "new"] ELSE tempDir
    /\ pc' = "callback"
    /\ UNCHANGED <<exitCode, fontSource, root, target, slintFiles, text,
                   caught, ended, target0, tempDir0, edits>>

\* Callback with the process.exit(1) left out: the error is logged and the
\* callback goes on to publish.
CallbackNoExit ==
    /\ pc = "callback"
    /\ Step("Callback")
    /\ pc' = "exists_generated"
    /\ UNCHANGED <<exitCode, ended, fontSource, root, target, tempDir, slintFiles,
                   text, err, engineCalls, caught, target0, tempDir0, wrote, edits>>

\* if (err) { ...; process.exit(1); }
Callback ==
    /\ pc = "callback"
    /\ Step("Callback")
    /\ IF err
       THEN Exit(1, "engine_error")
       ELSE pc' = "exists_generated" /\ UNCHANGED <<exitCode, ended>>
    /\ UNCHANGED <<fontSource, root, target, tempDir, slintFiles, text, err,
                   engineCalls, caught, target0, tempDir0, wrote, edits>>

\* if (fs.existsSync(generatedFile)) { try {...} } else { console.error(...) }:
\* the else branch only logs, and the process ends with the script.
CheckGenerated ==
    /\ pc = "exists_generated"
    /\ Step("CheckGenerated")
    /\ IF tempDir.generated # NoFile
       THEN pc' = "unlink_target" /\ UNCHANGED <<exitCode, ended>>
       ELSE Exit(0, "missing_output")
    /\ UNCHANGED <<fontSource, root, target, tempDir, slintFiles, text, err,
                   engineCalls, caught, target0, tempDir0, wrote, edits>>

\* An fs call inside the try block throws: control goes to the catch block.
Throw(call) ==
    /\ caught' = call
    /\ pc' = "catch"

\* if (fs.existsSync(targetFile)) { fs.unlinkSync(targetFile); }
UnlinkTarget ==
    /\ pc = "unlink_target"
    /\ Step("UnlinkTarget")
    /\ \/ /\ target = NoFile
          /\ pc' = "copy"
          /\ UNCHANGED <<target, caught>>
       \/ /\ target # NoFile
          /\ target' = NoFile
          /\ pc' = "copy"
          /\ UNCHANGED caught
       \/ /\ target # NoFile
          /\ Throw("unlinkSync(targetFile)")
          /\ UNCHANGED target
    /\ UNCHANGED <<exitCode, fontSource, root, tempDir, slintFiles, text, err,
                   engineCalls, ended, target0, tempDir0, wrote, edits>>

\* CopyFile with its own try/catch around the copy: a failed copy is ignored
\* and the cleanup follows.
CopyFileIgnoringFailure ==
    /\ pc = "copy"
    /\ Step("CopyFile")
    /\ \/ /\ target' = tempDir.generated
          /\ UNCHANGED caught
       \/ /\ caught' = "copyFileSync"
          /\ UNCHANGED target
    /\ pc' = "unlink_generated"
    /\ UNCHANGED <<exitCode, fontSource, root, tempDir, slintFiles, text, err,
                   engineCalls, ended, target0, tempDir0, wrote, edits>>

\* fs.copyFileSync(generatedFile, targetFile)
CopyFile ==
    /\ pc = "copy"
    /\ Step("CopyFile")
    /\ \/ /\ target' = tempDir.generated
          /\ pc' = "unlink_generated"
          /\ UNCHANGED caught
       \/ /\ Throw("copyFileSync")
          /\ UNCHANGED target
    /\ UNCHANGED <<exitCode, fontSource, root, tempDir, slintFiles, text, err,
                   engineCalls, ended, target0, tempDir0, wrote, edits>>

\* fs.unlinkSync(generatedFile)
UnlinkGenerated ==
    /\ pc = "unlink_generated"
    /\ Step("UnlinkGenerated")
    /\ \/ /\ tempDir' = [tempDir EXCEPT !.generated = NoFile]
          /\ pc' = "rmdir"
          /\ UNCHANGED caught
       \/ /\ Throw("unlinkSync(generatedFile)")
          /\ UNCHANGED tempDir
    /\ UNCHANGED <<exitCode, fontSource, root, target, slintFiles, text, err,
                   engineCalls, ended, target0, tempDir0, wrote, edits>>

\* fs.rmdirSync(TEMP_DIR): removes an empty directory, throws ENOTEMPTY on one
\* that still has entries, and may fail like any other fs call.
RemoveTempDir ==
    /\ pc = "rmdir"
    /\ Step("RemoveTempDir")
    /\ \/ /\ ~tempDir.others
          /\ tempDir' = [exists |-> FALSE, generated |-> NoFile, others |-> FALSE]
          /\ pc' = "stats"
          /\ UNCHANGED caught
       \/ /\ tempDir.others
          /\ Throw("rmdirSync ENOTEMPTY")
          /\ UNCHANGED tempDir
       \/ /\ ~tempDir.others
          /\ Throw("rmdirSync")
          /\ UNCHANGED tempDir
    /\ UNCHANGED <<exitCode, fontSource, root, target, slintFiles, text, err,
                   engineCalls, ended, target0, tempDir0, wrote, edits>>

\* The statSync calls and the size log; the callback returns and the process ends.
LogSizes ==
    /\ pc = "stats"
    /\ Step("LogSizes")
    /\ Exit(0, "published")
    /\ UNCHANGED <<fontSource, root, target, tempDir, slintFiles, text, err,
                   engineCalls, caught, target0, tempDir0, wrote, edits>>

\* catch (e) { console.error('Error moving file:', e); }: the callback returns
\* and the process ends.
Catch ==
    /\ pc = "catch"
    /\ Step("Catch")
    /\ Exit(0, "caught")
    /\ UNCHANGED <<fontSource, root, target, tempDir, slintFiles, text, err,
                   engineCalls, caught, target0, tempDir0, wrote, edits>>

Next ==
    \/ CheckFontSource
    \/ Discover
    \/ Extract
    \/ EmptyCheck
    \/ MakeTempDir
    \/ FontminRun
    \/ Callback
    \/ CheckGenerated
    \/ UnlinkTarget
    \/ CopyFile
    \/ UnlinkGenerated
    \/ RemoveTempDir
    \/ LogSizes
    \/ Catch

Spec == Init /\ [][Next]_vars

(***************************************************************************)
(* Properties of a whole run.                                              *)
(***************************************************************************)
\* Whether the step has been entered.
Ran(step) == \E i \in 1..Len(trace) : trace[i] = step

\* The place of a step in the order
\* start, discover, extract, empty check, subset, publish, cleanup, done.
StepOrder(step) ==
    CASE step = "CheckFontSource" -> 1
      [] step = "Discover" -> 2
      [] step = "Extract" -> 3
      [] step = "EmptyCheck" -> 4
      [] step = "MakeTempDir" -> 5
      [] step = "FontminRun" -> 6
      [] step = "Callback" -> 7
      [] step = "CheckGenerated" -> 8
      [] step = "UnlinkTarget" -> 9
      [] step = "CopyFile" -> 10
      [] step = "UnlinkGenerated" -> 11
      [] step = "RemoveTempDir" -> 12
      [] step = "LogSizes" -> 13
      [] step = "Catch" -> 14

\* C1: in every run with the source font present, a non-empty extracted text
\* and the engine calling back without error, the process ends with icons.ttf
\* holding the file the engine wrote in this run and with build/temp_font
\* gone, whatever icons.ttf and build/temp_font were before. Stated for the
\* runs most favourable to the claim: the engine wrote its output, and no fs
\* call failed for a reason outside the script (the only exception admitted
\* is rmdirSync's ENOTEMPTY, which the prior state of build/temp_font decides).
C1_PublishedAndTempDirRemoved ==
    (/\ pc = "exited"
     /\ fontSource
     /\ Len(text) > 0
     /\ engineCalls = 1 /\ ~err /\ wrote
     /\ caught \in {"none", "rmdirSync ENOTEMPTY"})
    => (target = "new" /\ ~tempDir.exists)

\* C2: the exit code is 0 when the font was published and when the run was
\* skipped for want of icons, and 1 when the source font is missing, when the
\* engine reports an error, and when the engine reports none but
\* segoeicons.ttf is not in the temporary directory.
C2_ExitCodes ==
    pc = "exited" =>
        /\ (ended = "published" => exitCode = 0)
        /\ (ended = "no_icons" => exitCode = 0)
        /\ (ended = "missing_font" => exitCode = 1)
        /\ (ended = "engine_error" => exitCode = 1)
        /\ (ended = "missing_output" => exitCode = 1)

\* C3: with the source font absent the run exits with code 1 at its first
\* step: nothing is discovered or extracted, the temporary directory and the
\* published file are as they were, and the engine is not called.
C3_MissingFontExitsFirst ==
    (~fontSource /\ pc # "start") =>
        /\ pc = "exited" /\ exitCode = 1
        /\ trace = <<"CheckFontSource">>
        /\ slintFiles = <<>> /\ text = <<>>
        /\ engineCalls = 0
        /\ tempDir = tempDir0
        /\ target = target0

C3_Witness == ~fontSource /\ pc = "exited" /\ target0 = "old" /\ root.entries # <<>>

\* C4: when the extracted text is empty the run exits with code 0 at the
\* empty check: the engine is not called, the temporary directory is not
\* created, and the published file is as it was.
C4_NoIconsSkips ==
    (Ran("EmptyCheck") /\ Len(text) = 0) =>
        /\ pc = "exited" /\ exitCode = 0
        /\ engineCalls = 0
        /\ tempDir = tempDir0
        /\ target = target0

C4_Witness ==
    /\ Ran("EmptyCheck") /\ Len(text) = 0
    /\ Len(slintFiles) > 0
    /\ ~tempDir0.exists
    /\ target0 = "old"

\* C5: when the engine reports an error, or reports none but segoeicons.ttf
\* is not in the temporary directory, the published file stays as it was.
C5_FailedSubsetLeavesPublished ==
    ((engineCalls = 1 /\ err) \/ ended = "missing_output") => target = target0

C5_Witness ==
    /\ pc = "exited"
    /\ engineCalls = 1 /\ err /\ wrote
    /\ target0 = "old"

\* C8: a failure of an fs call of the publish or cleanup stage (unlinkSync of
\* the old published file, copyFileSync, unlinkSync of the generated file,
\* rmdirSync) never ends the run with exit code 0.
C8_PublishFailureIsAnError ==
    (pc = "exited" /\ caught # "none") => exitCode # 0

\* C9: a published file that exists before the run exists when the process
\* ends, however the run ends, and then holds what it held or what the engine
\* wrote in this run.
C9_PublishedNeverLost ==
    (pc = "exited" /\ target0 # NoFile) =>
        /\ target # NoFile
        /\ (wrote => target \in {target0, "new"})

\* C10: the steps are entered in the order of the script, each at most once;
\* the engine is called at most once and only after the extraction gave a
\* non-empty text; the published file changes only after the engine called
\* back without error and its output was found; and the generated file and
\* the temporary directory are removed only after the copy succeeded.
C10_StagesInOrder ==
    /\ [](/\ \A i, j \in 1..Len(trace) : i < j => StepOrder(trace[i]) < StepOrder(trace[j])
          /\ engineCalls <= 1
          /\ (engineCalls = 1 => Ran("Extract") /\ Len(text) > 0)
          /\ (target # target0 =>
                 engineCalls = 1 /\ ~err /\ Ran("CheckGenerated")))
    /\ [][(target' # target) =>
             /\ engineCalls = 1 /\ ~err
             /\ Ran("CheckGenerated") /\ tempDir.generated # NoFile]_vars
    /\ [][(\/ (tempDir.generated # NoFile /\ tempDir'.generated = NoFile)
           \/ (tempDir.exists /\ ~tempDir'.exists)) =>
             /\ Ran("CopyFile") /\ caught = "none"
             /\ target # NoFile]_vars

C10_Witness ==
    /\ pc = "exited" /\ ended = "published"
    /\ target0 = "old" /\ target = "new"
    /\ tempDir0.exists /\ ~tempDir.exists

(***************************************************************************)
(* The discovery on its own, over every small tree.                        *)
(***************************************************************************)
\* Names of entries: two that end with .slint (one of them the bare suffix),
\* one of another kind, and one shorter than the suffix.
EntryNames == {Str_a_slint, DotSlint, Str_b_txt, Str_slint}

\* The paths of the directories at and under entries, <<>> being SRC_DIR itself.
RECURSIVE DirPaths(_, _)
DirPaths(entries, prefix) ==
    {prefix} \cup
    UNION {IF entries[i].isDir
           THEN DirPaths(entries[i].children, Append(prefix, entries[i].name))
           ELSE {}
           : i \in 1..Len(entries)}

\* entries with entry e added at the end of the directory at dirPath.
RECURSIVE WithEntry(_, _, _)
WithEntry(entries, dirPath, e) ==
    IF dirPath = <<>> THEN Append(entries, e)
    ELSE [i \in 1..Len(entries) |->
            IF entries[i].name = dirPath[1]
            THEN [entries[i] EXCEPT !.children = WithEntry(@, Tail(dirPath), e)]
            ELSE entries[i]]

\* The state at the call of getAllFiles(SRC_DIR), the source font being there:
\* SRC_DIR is missing or empty, and CreateEntry fills it before the call.
InitDiscover ==
    /\ root \in {SrcDir(<<>>), NoSrcDir}
    /\ pc = "discover"
    /\ exitCode = 0
    /\ fontSource = TRUE
    /\ target = NoFile
    /\ tempDir = [exists |-> FALSE, generated |-> NoFile, others |-> FALSE]
    /\ slintFiles = <<>>
    /\ text = <<>>
    /\ err = FALSE
    /\ engineCalls = 0
    /\ wrote = FALSE
    /\ caught = "none"
    /\ ended = "running"
    /\ target0 = target
    /\ tempDir0 = tempDir
    /\ edits = 0
    /\ trace = <<"CheckFontSource">>

\* Before the script runs, a file or a directory is created in a directory of
\* the source tree that has no entry of that name yet.
CreateEntry ==
    /\ pc = "discover" /\ trace = <<"CheckFontSource">>
    /\ root.exists
    /\ edits < MaxNodes
    /\ \E dirPath \in DirPaths(root.entries, <<>>), nm \in EntryNames, d \in BOOLEAN :
          /\ \A k \in 1..Len(readdirSync(root.entries, dirPath)) :
                 readdirSync(root.entries, dirPath)[k] # nm
          /\ root' = [root EXCEPT !.entries =
                         WithEntry(@, dirPath, IF d THEN Dir(nm, <<>>) ELSE File(nm, <<>>))]
    /\ edits' = edits + 1
    /\ UNCHANGED <<pc, exitCode, fontSource, target, tempDir, slintFiles, text, err,
                   engineCalls, caught, ended, target0, tempDir0, wrote, trace>>

SpecDiscover == InitDiscover /\ [][CreateEntry \/ Discover]_vars

\* name = stem + ".slint" for some stem.
HasSlintSuffix(name) ==
    /\ Len(name) >= 6
    /\ \A k \in 1..6 : name[Len(name) - 6 + k] = DotSlint[k]

\* The paths, below prefix, of the entries that are not directories and whose
\* name ends with .slint, at any depth under entries.
RECURSIVE SlintFilesUnder(_, _)
SlintFilesUnder(entries, prefix) ==
    UNION {IF entries[i].isDir
           THEN SlintFilesUnder(entries[i].children, Append(prefix, entries[i].name))
           ELSE IF HasSlintSuffix(entries[i].name)
                THEN {Append(prefix, entries[i].name)}
                ELSE {}
           : i \in 1..Len(entries)}

\* C7: getAllFiles returns the non-directory entries whose name ends with
\* .slint, at any depth, each once, and nothing else.
C7_DiscoveryExact ==
    (pc = "extract") =>
        /\ \A i, j \in 1..Len(slintFiles) : i # j => slintFiles[i] # slintFiles[j]
        /\ {slintFiles[i] : i \in 1..Len(slintFiles)} = SlintFilesUnder(root.entries, <<>>)

\* A directory whose own name ends with .slint is traversed and not returned,
\* and a file of another kind beside the .slint file in it is not returned.
C7_Witness ==
    /\ pc = "extract"
    /\ Len(slintFiles) = 1
    /\ Len(slintFiles[1]) = 2
    /\ HasSlintSuffix(slintFiles[1][1])
    /\ Len(root.entries) = 2
    /\ \E i \in 1..2 : ~root.entries[i].isDir /\ ~HasSlintSuffix(root.entries[i].name)

(***************************************************************************)
(* The extraction on its own, over file contents put together from chunks. *)
(***************************************************************************)
\* Pieces of text: whole escapes (two spellings of one code point, a
\* supplementary one, one past the last code point, the two halves of a
\* surrogate pair), and the parts escapes, well-formed or not, are made of.
Chunks ==
    {EscE7,
     <<"\\", "u", "{", "e", "7", "}">>,
     Esc1F600,
     Esc110000,
     <<"\\", "u", "{", "D", "8", "3", "D", "}">>,
     <<"\\", "u", "{", "D", "E", "0", "0", "}">>,
     <<"\\", "u", "{">>,
     <<"0", "E", "7">>,
     <<"}">>,
     <<"g">>,
     <<"\\", "u">>}

FileNumbers == <<"1", "2", "3", "4", "5", "6", "7", "8", "9">>

\* The .slint file SRC_DIR/<k>.slint.
NumberedSlint(k) == <<FileNumbers[k]>> \o DotSlint

\* The state at the call of extractUnicodes(slintFiles): one empty .slint file,
\* which WriteSource adds to before the call.
InitExtract ==
    /\ root = SrcDir(<<File(NumberedSlint(1), <<>>)>>)
    /\ slintFiles = <<<<NumberedSlint(1)>>>>
    /\ pc = "extract"
    /\ exitCode = 0
    /\ fontSource = TRUE
    /\ target = NoFile
    /\ tempDir = [exists |-> FALSE, generated |-> NoFile, others |-> FALSE]
    /\ text = <<>>
    /\ err = FALSE
    /\ engineCalls = 0
    /\ wrote = FALSE
    /\ caught = "none"
    /\ ended = "running"
    /\ target0 = target
    /\ tempDir0 = tempDir
    /\ edits = 0
    /\ trace = <<"CheckFontSource", "Discover">>

\* Before the script runs, a chunk is written at the end of the last .slint
\* file, or a new, empty .slint file is begun after it.
WriteSource ==
    /\ pc = "extract" /\ trace = <<"CheckFontSource", "Discover">>
    /\ edits < MaxTokens
    /\ LET n == Len(root.entries)
       IN  \/ /\ \E chunk \in Chunks :
                    root' = [root EXCEPT !.entries[n].content = @ \o chunk]
              /\ UNCHANGED slintFiles
           \/ /\ root' = [root EXCEPT !.entries = Append(@, File(NumberedSlint(n + 1), <<>>))]
              /\ slintFiles' = Append(slintFiles, <<NumberedSlint(n + 1)>>)
    /\ edits' = edits + 1
    /\ UNCHANGED <<pc, exitCode, fontSource, target, tempDir, text, err,
                   engineCalls, caught, ended, target0, tempDir0, wrote, trace>>

SpecExtract == InitExtract /\ [][WriteSource \/ Extract]_vars

\* content[i..j] is a well-formed escape: \u{ at i, } at j, and one or more
\* hexadecimal digits, and nothing else, between them.
WellFormedEscape(content, i, j) ==
    /\ 1 <= i /\ i + 4 <= j /\ j <= Len(content)
    /\ content[i] = "\\" /\ content[i + 1] = "u" /\ content[i + 2] = "{"
    /\ content[j] = "}"
    /\ \A k \in (i + 3)..(j - 1) : content[k] \in HexDigits

\* The digit a hexadecimal character stands for.
DigitOf(ch) ==
    CHOOSE d \in 0..15 :
        \/ (d < 10 /\ ch = <<"0", "1", "2", "3", "4", "5", "6", "7", "8", "9">>[d + 1])
        \/ (d >= 10 /\ ch \in {<<"a", "b", "c", "d", "e", "f">>[d - 9],
                               <<"A", "B", "C", "D", "E", "F">>[d - 9]})

RECURSIVE Pow16(_)
Pow16(n) == IF n = 0 THEN 1 ELSE 16 * Pow16(n - 1)

\* The number the digits content[a..b] write in base 16; every number of more
\* than six significant digits counts as MaxCodePoint + 1, past every code point.
HexNumber(content, a, b) ==
    LET significant == {k \in a..b : \E m \in a..k : content[m] # "0"}
    IN  IF Cardinality(significant) > 6 THEN MaxCodePoint + 1
        ELSE LET RECURSIVE Sum(_)
                 Sum(ks) == IF ks = {} THEN 0
                            ELSE LET k == CHOOSE x \in ks : TRUE
                                 IN  DigitOf(content[k]) * Pow16(b - k) + Sum(ks \ {k})
             IN  Sum(significant)

\* The places <<i, j>> of the well-formed escapes in content.
EscapesIn(content) ==
    {place \in {i \in 1..Len(content) : content[i] = "\\"} \X
               {j \in 1..Len(content) : content[j] = "}"} :
        WellFormedEscape(content, place[1], place[2])}

\* The occurrences <<file, i, j>> of well-formed escapes in the scanned files.
EscapeOccurrences ==
    UNION {{<<f, place[1], place[2]>> :
                place \in EscapesIn(readFileSync(root.entries, slintFiles[f]))}
           : f \in 1..Len(slintFiles)}

\* The code points written as well-formed escapes in the scanned files.
EscapedCodePoints ==
    {HexNumber(readFileSync(root.entries, slintFiles[occ[1]]), occ[2] + 3, occ[3] - 1)
     : occ \in EscapeOccurrences}

\* A code point that is a character: at most 10FFFF and no surrogate.
IsScalarValue(cp) == cp <= MaxCodePoint /\ ~(55296 <= cp /\ cp <= 57343)

IsHighSurrogate(u) == 55296 <= u /\ u <= 56319
IsLowSurrogate(u) == 56320 <= u /\ u <= 57343

\* The characters (code points) of a string of UTF-16 code units, read the way
\* a string is iterated: a high surrogate followed by a low one is one character.
RECURSIVE CodePointsOf(_)
CodePointsOf(units) ==
    IF units = <<>> THEN <<>>
    ELSE IF Len(units) >= 2 /\ IsHighSurrogate(units[1]) /\ IsLowSurrogate(units[2])
         THEN <<65536 + (units[1] - 55296) * 1024 + (units[2] - 56320)>>
              \o CodePointsOf(SubSeq(units, 3, Len(units)))
         ELSE <<units[1]>> \o CodePointsOf(Tail(units))

\* The returned string holds exactly the code points cps, each once.
HoldsExactly(units, cps) ==
    LET chars == CodePointsOf(units)
    IN  /\ \A i, j \in 1..Len(chars) : i # j => chars[i] # chars[j]
        /\ {chars[i] : i \in 1..Len(chars)} = cps

\* C6 as claimed: for every sequence of files and every content,
\* extractUnicodes returns a string holding exactly the characters written as
\* well-formed escapes \u{H+}, each once; other text contributes nothing.
C6_ExtractExact ==
    (pc # "extract") =>
        /\ ended # "uncaught"
        /\ HoldsExactly(text, EscapedCodePoints)

\* C6 as amended: when every well-formed escape writes a Unicode scalar value
\* (at most 10FFFF and no surrogate, D800 to DFFF), extractUnicodes returns a
\* string holding exactly those characters, each once; when a well-formed
\* escape writes a number above 10FFFF, extractUnicodes throws a RangeError
\* and returns nothing; text that is no well-formed escape contributes nothing.
C6_ExtractExactOnScalarValues ==
    (pc # "extract") =>
        LET cps == EscapedCodePoints
        IN  /\ (\A cp \in cps : IsScalarValue(cp))
               => (pc = "emptycheck" /\ HoldsExactly(text, cps))
            /\ (\E cp \in cps : cp > MaxCodePoint)
               => (pc = "exited" /\ ended = "uncaught" /\ exitCode = 1 /\ text = <<>>)
            /\ (\A cp \in cps : cp <= MaxCodePoint)
               => pc = "emptycheck"

\* Two characters, one of them written more than once, in two files or more.
C6_Witness ==
    /\ pc = "emptycheck"
    /\ Len(slintFiles) >= 2
    /\ Cardinality(EscapedCodePoints) = 2
    /\ Cardinality(EscapeOccurrences) > 2
    /\ \A cp \in EscapedCodePoints : IsScalarValue(cp)
    /\ Len(text) = 3

====
